---- MODULE Spec2Model ----
(***************************************************************************)
(* A model of TileNet (kstrafe/TileNet): the supercover line traversal of  *)
(* src/src/defs/line.rs, the grid of src/src/tiles/tilenet.rs and the      *)
(* collision-resolution driver used by src/examples/jump.rs.               *)
(*                                                                         *)
(* The module holds one state machine for each part, over one set of       *)
(* variables:                                                              *)
(*   SpecLine      a LineTiles iterator being drained by next(),           *)
(*   SpecSolve     one shape being resolved by the driver (solve),         *)
(*   SpecGrid      a TileNet under its constructors and operations,        *)
(*   SpecProxy     a TileNetProxy recording the span of its writes,        *)
(*   SpecQuery     a TileSet (collide_set) being drained,                  *)
(*   SpecTiles     the lines Collable::tiles builds from Points,           *)
(*   SpecMerge     a LinesTiles iterator being drained,                    *)
(*   SpecView      a TileView (view_all, view_box) being drained,          *)
(*   SpecOccupancy the grid of src/src/lib.rs under is_occupied,           *)
(*   SpecScenario  the corner scenario resolved by the driver.             *)
(* Each specification leaves the variables of the other parts untouched.   *)
(***************************************************************************)
EXTENDS Integers, Sequences, FiniteSets, TLC

VARIABLES
    \* --- line traversal (src/src/defs/line.rs)
    line,        \* the Line being traversed: [start, stop], scaled coordinates
    tiles,       \* the LineTiles iterator state
    produced,    \* the cells next() has returned so far, in order
    exhausted,   \* TRUE once next() has returned None
    \* --- resolution driver (Collable::solve, used by src/examples/jump.rs)
    pc,          \* position of the driver: "idle", "loop", "post"
    attempt,     \* loop counter of the driver's retry loop
    collided_once, \* driver local: some resolve returned false
    resolved,    \* driver local: a resolve returned true
    shape,       \* the Rects bookkeeping: [checking_x, downward, jmp]
    calls,       \* the callbacks the shape received in the current driver call
    solves,      \* number of driver calls started
    \* --- grid (src/src/tiles/tilenet.rs)
    net,         \* the TileNet: [map, cols]
    pre,         \* the TileNet before the last operation
    op,          \* the last operation and its arguments
    \* --- proxy (TileNetProxy of src/src/tiles/tilenet.rs), editing net
    proxy,       \* the TileNetProxy: [min_x, max_x, min_y, max_y]
    written,     \* the cells of net the proxy's writes have set
    writes,      \* number of writes made through the proxy
    \* --- tile query (TileSet of src/src/tiles/mod.rs), reading net
    tileset,     \* the TileSet: [points], the coordinates not yet taken
    answers,     \* one record per call of TileSet::next so far
    \* --- merged traversal (LinesTiles of src/src/collable/mod.rs)
    merged,      \* the LinesTiles: [lines, index]
    merged_out,  \* one record per call of LinesTiles::next so far
    \* --- candidate lines (Collable::tiles of src/src/collable/mod.rs)
    collable,    \* the shape: [offset, pts, queued] and the Points iterator index
    multi,       \* the lines pushed to the multi-iterator so far
    \* --- view (TileView of src/src/tiles/mod.rs), reading net
    view,        \* the TileView: [rectangle, current]
    viewed,      \* the triples TileView::next has returned so far
    \* --- occupancy (TileNet<T> of src/src/lib.rs, cells of Option<T>)
    optnet,      \* the TileNet of lib.rs: [map, cols], cells None or Some(v)
    probe,       \* the last is_occupied call: [p, result]
    \* --- the corner scenario: a square shape driven into a walled grid
    arena,       \* side of the walled grid, in cells
    body         \* the shape: [pos, mov], in millionths of a cell

lineVars  == <<line, tiles, produced, exhausted>>
solveVars == <<pc, attempt, collided_once, resolved, shape, calls, solves>>
gridVars  == <<net, pre, op>>
proxyVars == <<proxy, written, writes>>
queryVars == <<tileset, answers>>
mergeVars == <<merged, merged_out>>
tilesVars == <<collable, multi>>
viewVars  == <<view, viewed>>
occupancyVars == <<optnet, probe>>
scenarioVars == <<arena, body>>
laterVars == <<proxyVars, queryVars, mergeVars, tilesVars, viewVars,
               occupancyVars, scenarioVars>>
vars      == <<lineVars, solveVars, gridVars, laterVars>>

Abs(n) == IF n < 0 THEN -n ELSE n
Min2(a, b) == IF a < b THEN a ELSE b
Max2(a, b) == IF a > b THEN a ELSE b

(***************************************************************************)
(* Geometry.  An f32 coordinate c is held as the integer c * Scale, so the *)
(* model covers the positions that are multiples of 1/Scale.               *)
(***************************************************************************)
Scale == 2
MaxPos == 4                      \* coordinates range over -MaxPos..MaxPos (scaled)
Positions == (-MaxPos)..MaxPos

\* f32::floor, as a whole number of cells
Floor(a) == a \div Scale
\* f32::trunc, as a whole number of cells (rounds toward zero)
Trunc(a) == IF a >= 0 THEN a \div Scale ELSE -((-a) \div Scale)
\* f32::fract = self - self.trunc(), scaled: negative for a negative argument
Fract(a) == a - Trunc(a) * Scale

(***************************************************************************)
(* The accumulators ex, ey and the increments dx, dy are f32 values that   *)
(* may be finite, +infinity (an axis-aligned line divides by zero) or NaN  *)
(* (a zero-length line computes 0/0).  With L the length of the segment,   *)
(* dx = sqrt(1 + vy^2/vx^2) = L/|vx| and dy = L/|vy|: every finite value   *)
(* the iterator holds is an integer multiple of one positive unit          *)
(* (L / (|VX| * |VY|) for a sloped line, 1/Scale for an axis-aligned one), *)
(* and is held as that integer.  Comparison, addition, subtraction and min *)
(* are the same on the integers as on the reals they stand for; the        *)
(* rounding of f32 arithmetic matters only where two of the reals are      *)
(* equal, and is the choice of Roundings below.                            *)
(***************************************************************************)
Fin(n) == [k |-> "fin", v |-> n]
Inf == [k |-> "inf", v |-> 0]
NaN == [k |-> "nan", v |-> 0]

\* a + b on f32
FAdd(a, b) ==
    IF a.k = "nan" \/ b.k = "nan" THEN NaN
    ELSE IF a.k = "inf" \/ b.k = "inf" THEN Inf
    ELSE Fin(a.v + b.v)

\* a - b on f32 (inf - inf is NaN)
FSub(a, b) ==
    IF a.k = "nan" \/ b.k = "nan" THEN NaN
    ELSE IF a.k = "inf" THEN (IF b.k = "inf" THEN NaN ELSE Inf)
    ELSE IF b.k = "inf" THEN NaN   \* -inf: never met, ex and ey are not both below an infinite minimum
    ELSE Fin(a.v - b.v)

\* a < b on f32 (false when either is NaN)
FLt(a, b) ==
    IF a.k = "nan" \/ b.k = "nan" THEN FALSE
    ELSE IF a.k = "inf" THEN FALSE
    ELSE IF b.k = "inf" THEN TRUE
    ELSE a.v < b.v

\* f32::min (returns the other operand when one is NaN)
FMin(a, b) ==
    IF a.k = "nan" THEN b
    ELSE IF b.k = "nan" THEN a
    ELSE IF FLt(b, a) THEN b ELSE a

\* (f / Scale) * d for a scaled fraction f and an increment d.  An infinite
\* increment belongs to an axis with v = 0, which takes the else branch of
\* supercover, where the factor 1 - fract is positive.
FScale(f, d) ==
    IF d.k = "nan" THEN NaN
    ELSE IF d.k = "inf" THEN (IF f > 0 THEN Inf ELSE NaN)
    ELSE Fin((f * d.v) \div Scale)

\* Line::supercover: the iterator at the start of the line l
supercover(l) ==
    LET VX == l.stop[1] - l.start[1]
        VY == l.stop[2] - l.start[2]
        \* slope_x.sqrt() and slope_y.sqrt() in the line's unit
        dx == IF VX = 0 THEN (IF VY = 0 THEN NaN ELSE Inf)
              ELSE IF VY = 0 THEN Fin(Scale) ELSE Fin(Scale * Abs(VY))
        dy == IF VY = 0 THEN (IF VX = 0 THEN NaN ELSE Inf)
              ELSE IF VX = 0 THEN Fin(Scale) ELSE Fin(Scale * Abs(VX))
    IN  [it |-> 0,
         len |-> Abs(Floor(VX)) + Abs(Floor(VY)),
         dx |-> dx,
         dy |-> dy,
         sx |-> IF VX < 0 THEN -1 ELSE 1,
         sy |-> IF VY < 0 THEN -1 ELSE 1,
         ex |-> IF VX < 0 THEN FScale(Fract(l.start[1]), dx)
                ELSE FScale(Scale - Fract(l.start[1]), dx),
         ey |-> IF VY < 0 THEN FScale(Fract(l.start[2]), dy)
                ELSE FScale(Scale - Fract(l.start[2]), dy),
         ix |-> Floor(l.start[1]),
         iy |-> Floor(l.start[2]),
         dest_x |-> Floor(l.stop[1]),
         dest_y |-> Floor(l.stop[2])]

\* LineTiles::minimize_distance_from_zero
minimize_distance_from_zero(t) ==
    LET minimal == FMin(t.ex, t.ey)
    IN  [t EXCEPT !.ex = FSub(t.ex, minimal), !.ey = FSub(t.ey, minimal)]

\* ex == ey in exact arithmetic
FTie(a, b) == a.k = "fin" /\ b.k = "fin" /\ a.v = b.v

\* A step that advances along x when ex and ey are equal
step_to_next_tile_tie_along_x(t, below) ==
    IF FLt(t.ex, t.ey) \/ FTie(t.ex, t.ey)
    THEN [t EXCEPT !.ex = FAdd(t.ex, t.dx), !.ix = t.ix + t.sx]
    ELSE [t EXCEPT !.ey = FAdd(t.ey, t.dy), !.iy = t.iy + t.sy]

\* LineTiles::step_to_next_tile.  below: the f32 values compare ex < ey
\* although the exact values are equal (see Roundings)
step_to_next_tile(t, below) ==
    IF FLt(t.ex, t.ey) \/ (below /\ FTie(t.ex, t.ey))
    THEN [t EXCEPT !.ex = FAdd(t.ex, t.dx), !.ix = t.ix + t.sx]
    ELSE [t EXCEPT !.ey = FAdd(t.ey, t.dy), !.iy = t.iy + t.sy]

\* A next() whose last element is the cell the walk has reached
final_tile_walked(t) == <<t.ix, t.iy>>

\* The element LineTiles::next returns once the interior steps are used up
final_tile(t) == <<t.dest_x, t.dest_y>>

\* A next() that ends after the interior steps, without the destination
LineTiles_next_without_destination(t, below) ==
    IF t.it < t.len
    THEN [some |-> TRUE, item |-> <<t.ix, t.iy>>,
          state |-> minimize_distance_from_zero(
                        step_to_next_tile([t EXCEPT !.it = t.it + 1], below))]
    ELSE [some |-> FALSE, item |-> <<0, 0>>, state |-> t]

\* LineTiles::next: [item, some, state], some = FALSE standing for None
LineTiles_next(t, below) ==
    IF t.it < t.len
    THEN [some |-> TRUE, item |-> <<t.ix, t.iy>>,
          state |-> minimize_distance_from_zero(
                        step_to_next_tile([t EXCEPT !.it = t.it + 1], below))]
    ELSE IF t.it = t.len
    THEN [some |-> TRUE, item |-> final_tile(t), state |-> [t EXCEPT !.it = t.it + 1]]
    ELSE [some |-> FALSE, item |-> <<0, 0>>, state |-> t]

(***************************************************************************)
(* Where ex and ey are equal in exact arithmetic, the f32 values the code  *)
(* compares are equal or differ by the rounding of sqrt, *, + and -, so    *)
(* the comparison ex < ey can come out either way.  The f32 values are     *)
(* known to be equal, and the else branch known to be taken,               *)
(*  - on a diagonal (|vx| = |vy|) from a whole-numbered start: dx = dy and *)
(*    ex, ey only take the values 0, dx and 2 * dx, all computed exactly;  *)
(*  - at the first step when both are 0 (0 * dx and 0 * dy), or when       *)
(*    dx = dy and both are the same fraction of it.                        *)
(* Roundings is the set of outcomes of the comparison left open.           *)
(***************************************************************************)
Roundings(l, t) ==
    LET diagonal == Abs(l.stop[1] - l.start[1]) = Abs(l.stop[2] - l.start[2])
        whole == Fract(l.start[1]) = 0 /\ Fract(l.start[2]) = 0
    IN  IF t.it < t.len /\ FTie(t.ex, t.ey)
           /\ ~(diagonal /\ whole)
           /\ ~(t.it = 0 /\ (diagonal \/ t.ex.v = 0))
        THEN BOOLEAN
        ELSE {FALSE}

NoLine == [start |-> <<0, 0>>, stop |-> <<0, 0>>]
IdleLine ==
    /\ line = NoLine
    /\ tiles = supercover(NoLine)
    /\ produced = <<>>
    /\ exhausted = FALSE

\* A line between two positions, and its fresh iterator
InitLine ==
    /\ \E sx \in Positions, sy \in Positions, tx \in Positions, ty \in Positions :
          line = [start |-> <<sx, sy>>, stop |-> <<tx, ty>>]
    /\ tiles = supercover(line)
    /\ produced = <<>>
    /\ exhausted = FALSE

\* One call of next() by the consumer, until the first None
Next_LineTiles ==
    /\ ~exhausted
    /\ \E below \in Roundings(line, tiles) :
          LET r == LineTiles_next(tiles, below)
          IN  /\ tiles' = r.state
              /\ produced' = IF r.some THEN Append(produced, r.item) ELSE produced
              /\ exhausted' = ~r.some
    /\ UNCHANGED <<line, solveVars, gridVars, laterVars>>

(***************************************************************************)
(* The resolution driver.  src/examples/jump.rs calls coller.solve(&net,   *)
(* &mut state) and implements presolve, postsolve and resolve for Rects;   *)
(* the body of solve is not among the source files, and is modelled from   *)
(* the driver state machine of the specification (section 4.5):            *)
(*   presolve; up to MaxIterations times { build candidates; query;        *)
(*   resolve; leave the loop on "resolved" }; postsolve(collided, resolved)*)
(* The tile payloads the shape sees and the size of its pending move are   *)
(* inputs of each resolve call.                                            *)
(***************************************************************************)
MaxIterations == 30
MaxSolves == 2                   \* driver calls in one behaviour

\* Rects::new with ColState::default
NewShape == [checking_x |-> FALSE, downward |-> FALSE, jmp |-> FALSE]

\* ColState::check_x / ColState::no_check_x followed by Rects::presolve.
\* checking: the state was built by check_x; falling: self.mov.1 > 1e-6
Rects_presolve(s, checking, falling) ==
    IF checking
    THEN [s EXCEPT !.checking_x = TRUE, !.downward = FALSE]
    ELSE [s EXCEPT !.checking_x = FALSE, !.downward = falling]

\* Rects::postsolve
Rects_postsolve(s, collided, did_resolve) ==
    IF s.checking_x
    THEN s
    ELSE [s EXCEPT !.jmp = (collided /\ s.downward)]

\* Rects::resolve.  free: every payload of the tile set is 0;
\* moving: mov.norm2sq() > 1e-6.  TRUE is "resolved", FALSE is "try again".
Rects_resolve(free, moving) ==
    IF free THEN TRUE
    ELSE IF moving THEN FALSE
    ELSE TRUE

\* A loop that runs one attempt too many
loop_continues_once_more(done, result) == ~result /\ done <= MaxIterations

\* A loop that does not leave on "resolved"
loop_continues_after_resolved(done, result) == done < MaxIterations

\* The driver's loop condition after an attempt: the loop goes on when the
\* attempt was rejected and attempts are left
loop_continues(done, result) == ~result /\ done < MaxIterations

\* The two flags handed over in the wrong order
postsolve_flags_swapped(collided, did_resolve) == <<did_resolve, collided>>

\* The flags the driver hands to postsolve
postsolve_flags(collided, did_resolve) == <<collided, did_resolve>>

Callback(name, a, b) == [cb |-> name, a |-> a, b |-> b]

IdleSolve ==
    /\ pc = "idle"
    /\ attempt = 0
    /\ collided_once = FALSE
    /\ resolved = FALSE
    /\ shape = NewShape
    /\ calls = <<>>
    /\ solves = 0

\* solve is entered: the locals are initialised and presolve is called
Solve_presolve ==
    /\ pc = "idle"
    /\ solves < MaxSolves
    /\ \E checking \in BOOLEAN, falling \in BOOLEAN :
          shape' = Rects_presolve(shape, checking, falling)
    /\ calls' = <<Callback("presolve", FALSE, FALSE)>>
    /\ attempt' = 0
    /\ collided_once' = FALSE
    /\ resolved' = FALSE
    /\ solves' = solves + 1
    /\ pc' = "loop"
    /\ UNCHANGED <<lineVars, gridVars, laterVars>>

\* One iteration of the retry loop: the candidates are rebuilt and queried and
\* resolve is called with them
Solve_resolve ==
    /\ pc = "loop"
    /\ \E free \in BOOLEAN, moving \in BOOLEAN :
          LET result == Rects_resolve(free, moving)
          IN  /\ calls' = Append(calls, Callback("resolve", result, FALSE))
              /\ resolved' = (resolved \/ result)
              /\ collided_once' = (collided_once \/ ~result)
              /\ pc' = IF loop_continues(attempt + 1, result) THEN "loop" ELSE "post"
    /\ attempt' = attempt + 1
    /\ UNCHANGED <<shape, solves, lineVars, gridVars, laterVars>>

\* The loop is over: postsolve is called and solve returns
Solve_postsolve ==
    /\ pc = "post"
    /\ LET flags == postsolve_flags(collided_once, resolved)
       IN  /\ shape' = Rects_postsolve(shape, flags[1], flags[2])
           /\ calls' = Append(calls, Callback("postsolve", flags[1], flags[2]))
    /\ pc' = "idle"
    /\ UNCHANGED <<attempt, collided_once, resolved, solves, lineVars, gridVars, laterVars>>

(***************************************************************************)
(* The grid: TileNet<T> of src/src/tiles/tilenet.rs, a row-major Vec<T>    *)
(* and the column count.  Vec index i is element i + 1 of the sequence     *)
(* map.  The payload type is opaque to the grid (it is only cloned and     *)
(* default-created), so two payloads stand for it: T::default() and one    *)
(* other.  Indices are usize values far below usize::MAX: the overflow of  *)
(* p.0 + p.1 * cols is outside the coordinates modelled.  The column count *)
(* is at least 1: row_count divides by it.                                 *)
(***************************************************************************)
MaxDim == 2                      \* grids have 1..MaxDim columns, 0..MaxDim rows
MaxItems == 4                    \* from_iter takes up to MaxItems items
Default == 0
Payloads == {Default, 1}
Cols == 1..MaxDim
Rows == 0..MaxDim
Coords == 0..MaxDim              \* write targets: up to one past the largest grid
Points == Coords \X Coords
ItemLists == UNION {[1..m -> Payloads] : m \in 0..MaxItems}

None == [some |-> FALSE, val |-> Default]
Some(v) == [some |-> TRUE, val |-> v]

\* vec![T::default(); n]
Defaults(n) == [i \in 1..n |-> Default]

\* TileNet::new(x, y)
new(x, y) == [map |-> Defaults(x * y), cols |-> x]

\* A from_iter that does not fill the last row
from_iter_unpadded(columns, items) == [map |-> items, cols |-> columns]

\* TileNet::from_iter(columns, iter)
from_iter(columns, items) ==
    LET remainder == Len(items) % columns
    IN  [map |-> IF remainder # 0
                 THEN items \o Defaults(columns - remainder)
                 ELSE items,
         cols |-> columns]

\* TileNet::row_count
row_count(n) == Len(n.map) \div n.cols

\* TileNet::col_count
col_count(n) == n.cols

\* TileNet::get_size
get_size(n) == <<n.cols, row_count(n)>>

\* slice::get / slice::get_mut: the Vec index when it is in bounds
slot(n, i) == IF i < Len(n.map) THEN Some(i) ELSE None

\* A get_mut without the column check
get_mut_unchecked(n, p) == slot(n, p[1] + p[2] * n.cols)

\* TileNet::get_mut(p): the Vec index of the tile, or None
get_mut(n, p) ==
    IF p[1] >= n.cols THEN None ELSE slot(n, p[1] + p[2] * n.cols)

\* A get without the column check
get_unchecked(n, p) ==
    LET s == slot(n, p[1] + p[2] * n.cols)
    IN  IF s.some THEN Some(n.map[s.val + 1]) ELSE None

\* TileNet::get(p): the payload, or None
get(n, p) ==
    IF p[1] >= n.cols
    THEN None
    ELSE LET s == slot(n, p[1] + p[2] * n.cols)
         IN  IF s.some THEN Some(n.map[s.val + 1]) ELSE None

\* TileNet::set(value, p)
set(n, value, p) ==
    LET old == get_mut(n, p)
    IN  IF old.some THEN [n EXCEPT !.map[old.val + 1] = value] ELSE n

\* self.set(value, q) for each q of targets, in order
RECURSIVE set_each(_, _, _)
set_each(n, value, targets) ==
    IF targets = <<>> THEN n
    ELSE set_each(set(n, value, Head(targets)), value, Tail(targets))

\* The range a..b of a Rust for loop (b excluded), as a sequence
Range(a, b) == [k \in 1..(b - a) |-> a + k - 1]

\* A set_box that leaves out the stop row, the stop column and the corner
set_box_targets_exclusive(start, stop) ==
    LET xs == Range(start[1], stop[1])
        ys == Range(start[2], stop[2])
        w  == Len(xs)
    IN  [k \in 1..(Len(ys) * w) |-> <<xs[((k - 1) % w) + 1], ys[((k - 1) \div w) + 1]>>]

\* TileNet::set_box(value, start, stop): the four loops and the corner
set_box_targets(start, stop) ==
    LET xs == Range(start[1], stop[1])
        ys == Range(start[2], stop[2])
        w  == Len(xs)
    IN  [k \in 1..(Len(ys) * w) |-> <<xs[((k - 1) % w) + 1], ys[((k - 1) \div w) + 1]>>]
        \o [k \in 1..w |-> <<xs[k], stop[2]>>]
        \o [k \in 1..Len(ys) |-> <<stop[1], ys[k]>>]
        \o << <<stop[1], stop[2]>> >>

set_box(n, value, start, stop) == set_each(n, value, set_box_targets(start, stop))

\* positivize_isize
positivize_isize(value) == IF value < 0 THEN 0 ELSE value

\* positivize_2_tuple
positivize_2_tuple(value) == <<positivize_isize(value[1]), positivize_isize(value[2])>>

\* TileNet::set_box_isize(value, start, stop)
set_box_isize(n, value, start, stop) ==
    set_box(n, value, positivize_2_tuple(start), positivize_2_tuple(stop))

\* TileNet::set_row(value, row)
set_row(n, value, row) ==
    set_each(n, value, [k \in 1..col_count(n) |-> <<k - 1, row>>])

\* TileNet::set_col(value, col)
set_col(n, value, col) ==
    set_each(n, value, [k \in 1..row_count(n) |-> <<col, k - 1>>])

\* A filter that only looks at the row
survives_by_row(x, y, new_cols, new_rows) == y < new_rows

\* The filter of resize: the old tile (x, y) lies in the new extent
survives(x, y, new_cols, new_rows) == x < new_cols /\ y < new_rows

\* The pass of resize over the old tiles i, i + 1, ...: each tile that
\* survives, (x, y) = (i % cols, i / cols), is cloned into new_map at
\* x + y * new_cols, an index below new_map.len() for a tile of the new
\* extent (any other index would panic, and writes nothing here).
RECURSIVE resize_copy(_, _, _, _, _)
resize_copy(n, new_map, new_cols, new_rows, i) ==
    IF i >= Len(n.map) THEN new_map
    ELSE LET x == i % n.cols
             y == i \div n.cols
             j == x + y * new_cols
         IN  resize_copy(n,
                         IF survives(x, y, new_cols, new_rows) /\ j < Len(new_map)
                         THEN [new_map EXCEPT ![j + 1] = n.map[i + 1]]
                         ELSE new_map,
                         new_cols, new_rows, i + 1)

\* TileNet::resize(m)
resize(n, m) ==
    LET new_map == Defaults(m[1] * m[2])
        new_cols == m[2]
        new_rows == Len(new_map) \div new_cols
    IN  [map |-> resize_copy(n, new_map, new_cols, new_rows, 0),
         cols |-> new_cols]

Op(name, v, a, b) == [name |-> name, v |-> v, a |-> a, b |-> b]

\* No operation is on record: the caller is between two operations
NoOp == Op("none", Default, <<0, 0>>, <<0, 0>>)

IdleGrid ==
    /\ net = new(1, 0)
    /\ pre = net
    /\ op = NoOp

\* The grid right after TileNet::new(x, y)
InitGrid ==
    /\ \E x \in Cols, y \in Rows :
          /\ net = new(x, y)
          /\ op = Op("new", Default, <<x, y>>, <<0, 0>>)
    /\ pre = net

\* A fresh grid replaces the grid: TileNet::new
New ==
    /\ op = NoOp
    /\ \E x \in Cols, y \in Rows :
          /\ net' = new(x, y)
          /\ op' = Op("new", Default, <<x, y>>, <<0, 0>>)
    /\ pre' = net'
    /\ UNCHANGED <<lineVars, solveVars, laterVars>>

\* A fresh grid replaces the grid: TileNet::from_iter
FromIter ==
    /\ op = NoOp
    /\ \E columns \in Cols, items \in ItemLists :
          /\ net' = from_iter(columns, items)
          /\ op' = Op("from_iter", Default, <<columns, Len(items)>>, <<0, 0>>)
    /\ pre' = net'
    /\ UNCHANGED <<lineVars, solveVars, laterVars>>

Set ==
    /\ op = NoOp
    /\ \E value \in Payloads, p \in Points :
          /\ net' = set(net, value, p)
          /\ op' = Op("set", value, p, <<0, 0>>)
    /\ pre' = net
    /\ UNCHANGED <<lineVars, solveVars, laterVars>>

SetRow ==
    /\ op = NoOp
    /\ \E value \in Payloads, row \in Coords :
          /\ net' = set_row(net, value, row)
          /\ op' = Op("set_row", value, <<0, row>>, <<0, 0>>)
    /\ pre' = net
    /\ UNCHANGED <<lineVars, solveVars, laterVars>>

SetCol ==
    /\ op = NoOp
    /\ \E value \in Payloads, col \in Coords :
          /\ net' = set_col(net, value, col)
          /\ op' = Op("set_col", value, <<col, 0>>, <<0, 0>>)
    /\ pre' = net
    /\ UNCHANGED <<lineVars, solveVars, laterVars>>

SetBox ==
    /\ op = NoOp
    /\ \E value \in Payloads, start \in Points, stop \in Points :
          /\ net' = set_box(net, value, start, stop)
          /\ op' = Op("set_box", value, start, stop)
    /\ pre' = net
    /\ UNCHANGED <<lineVars, solveVars, laterVars>>

\* set_box_isize takes signed corners, from one below the grid's origin
SignedPoints == ((-1)..MaxDim) \X ((-1)..MaxDim)

SetBoxIsize ==
    /\ op = NoOp
    /\ \E value \in Payloads, start \in SignedPoints, stop \in SignedPoints :
          /\ net' = set_box_isize(net, value, start, stop)
          /\ op' = Op("set_box_isize", value, start, stop)
    /\ pre' = net
    /\ UNCHANGED <<lineVars, solveVars, laterVars>>

Resize ==
    /\ op = NoOp
    /\ \E m \in Rows \X Cols :
          /\ net' = resize(net, m)
          /\ op' = Op("resize", Default, m, <<0, 0>>)
    /\ pre' = net
    /\ UNCHANGED <<lineVars, solveVars, laterVars>>

\* The operation has returned and the caller goes on: the record of the
\* operation (op, pre) is dropped, the grid stays as it is
Proceed ==
    /\ op # NoOp
    /\ op' = NoOp
    /\ pre' = net
    /\ UNCHANGED <<net, lineVars, solveVars, laterVars>>

(***************************************************************************)
(* The specifications                                                      *)
(***************************************************************************)
(***************************************************************************)
(* The proxy: TileNetProxy of src/src/tiles/tilenet.rs.  It forwards each  *)
(* write to the TileNet it borrows (net) and keeps four usize fields, the  *)
(* span of the writes.                                                     *)
(***************************************************************************)
MaxWrites == 2                   \* writes through one proxy
NoProxy == [min_x |-> 0, max_x |-> 0, min_y |-> 0, max_y |-> 0]

\* TileNet::prepare
prepare(n) ==
    LET size == get_size(n)
    IN  [min_x |-> size[1], max_x |-> 0, min_y |-> size[2], max_y |-> 0]

\* TileNetProxy::get_span
get_span(pr) == <<pr.min_x, pr.min_y, pr.max_x, pr.max_y>>

\* TileNetProxy::set_box, the fields after the write.  n: the TileNet
Proxy_set_box(pr, n, start, stop) ==
    [min_x |-> IF start[1] < pr.min_x THEN start[1] ELSE pr.min_x,
     min_y |-> IF start[2] < pr.min_y THEN start[2] ELSE pr.min_y,
     max_x |-> IF stop[1] > pr.max_x THEN stop[1] ELSE pr.max_x,
     max_y |-> IF stop[2] > pr.max_y /\ stop[2] < get_size(n)[2]
               THEN stop[2] ELSE pr.max_y]

\* TileNetProxy::set_row, the fields after the write
Proxy_set_row(pr, n, row) ==
    [min_x |-> 0,
     max_x |-> get_size(n)[1],
     min_y |-> IF row < pr.min_y THEN row ELSE pr.min_y,
     max_y |-> IF row > pr.max_y /\ row < get_size(n)[2] THEN row ELSE pr.max_y]

\* TileNetProxy::set_col, the fields after the write
Proxy_set_col(pr, n, col) ==
    [min_y |-> 0,
     max_y |-> get_size(n)[2],
     min_x |-> IF col < pr.min_x THEN col ELSE pr.min_x,
     max_x |-> IF col > pr.max_x /\ col < get_size(n)[1] THEN col ELSE pr.max_x]

\* TileNetProxy::set, the fields after the write
Proxy_set(pr, n, p) ==
    [min_x |-> IF p[1] < pr.min_x THEN p[1] ELSE pr.min_x,
     min_y |-> IF p[2] < pr.min_y THEN p[2] ELSE pr.min_y,
     max_x |-> IF p[1] > pr.max_x /\ p[1] < get_size(n)[1] THEN p[1] ELSE pr.max_x,
     max_y |-> IF p[2] > pr.max_y /\ p[2] < get_size(n)[2] THEN p[2] ELSE pr.max_y]

\* The cells of n that a write to each of targets sets
hits(n, targets) ==
    {targets[k] : k \in {j \in 1..Len(targets) : get_mut(n, targets[j]).some}}

\* A grid of default payloads and a proxy prepared on it; the writes through
\* the proxy set a payload other than the default
InitProxy ==
    /\ \E x \in Cols, y \in Rows : net = new(x, y)
    /\ pre = net
    /\ op = NoOp
    /\ proxy = prepare(net)
    /\ written = {}
    /\ writes = 0

ProxySetBox ==
    /\ writes < MaxWrites
    /\ \E value \in Payloads \ {Default}, start \in Points, stop \in Points :
          /\ net' = set_box(net, value, start, stop)
          /\ proxy' = Proxy_set_box(proxy, net', start, stop)
          /\ written' = written \cup hits(net, set_box_targets(start, stop))
    /\ writes' = writes + 1
    /\ UNCHANGED <<pre, op, lineVars, solveVars, queryVars, mergeVars, tilesVars,
                   viewVars, occupancyVars, scenarioVars>>

ProxySetRow ==
    /\ writes < MaxWrites
    /\ \E value \in Payloads \ {Default}, row \in Coords :
          /\ net' = set_row(net, value, row)
          /\ proxy' = Proxy_set_row(proxy, net', row)
          /\ written' = written \cup hits(net, [k \in 1..col_count(net) |-> <<k - 1, row>>])
    /\ writes' = writes + 1
    /\ UNCHANGED <<pre, op, lineVars, solveVars, queryVars, mergeVars, tilesVars,
                   viewVars, occupancyVars, scenarioVars>>

ProxySetCol ==
    /\ writes < MaxWrites
    /\ \E value \in Payloads \ {Default}, col \in Coords :
          /\ net' = set_col(net, value, col)
          /\ proxy' = Proxy_set_col(proxy, net', col)
          /\ written' = written \cup hits(net, [k \in 1..row_count(net) |-> <<col, k - 1>>])
    /\ writes' = writes + 1
    /\ UNCHANGED <<pre, op, lineVars, solveVars, queryVars, mergeVars, tilesVars,
                   viewVars, occupancyVars, scenarioVars>>

ProxySet ==
    /\ writes < MaxWrites
    /\ \E value \in Payloads \ {Default}, p \in Points :
          /\ net' = set(net, value, p)
          /\ proxy' = Proxy_set(proxy, net', p)
          /\ written' = written \cup hits(net, <<p>>)
    /\ writes' = writes + 1
    /\ UNCHANGED <<pre, op, lineVars, solveVars, queryVars, mergeVars, tilesVars,
                   viewVars, occupancyVars, scenarioVars>>

(***************************************************************************)
(* The tile query: TileSet of src/src/tiles/mod.rs, made by                *)
(* TileNet::collide_set from an iterator of (i32, i32) coordinates.  The   *)
(* coordinate iterator is held as the sequence of coordinates it will      *)
(* still give.                                                             *)
(***************************************************************************)
MaxQueries == 2                  \* coordinates given to one collide_set
QueryCoords == (-1)..MaxDim
QueryLists ==
    UNION {[1..m -> QueryCoords \X QueryCoords] : m \in 0..MaxQueries}

\* TileNet::collide_set(list)
collide_set(list) == [points |-> list]

\* A next() that only rejects a negative column
TileSet_next_checks_column_only(ts, n) ==
    IF ts.points # <<>>
    THEN LET point == Head(ts.points)
         IN  [taken |-> TRUE,
              point |-> point,
              consulted |-> point[1] >= 0,
              result |-> IF point[1] >= 0
                         THEN get(n, <<point[1], Abs(point[2])>>)
                         ELSE None,
              state |-> [ts EXCEPT !.points = Tail(ts.points)]]
    ELSE [taken |-> FALSE, point |-> <<0, 0>>, consulted |-> FALSE,
          result |-> None, state |-> ts]

\* TileSet::next on the grid n.  taken: the coordinate iterator gave a
\* point; consulted: TileNet::get was called; result: what next returns
TileSet_next(ts, n) ==
    IF ts.points # <<>>
    THEN LET point == Head(ts.points)
             nonnegative == point[1] >= 0 /\ point[2] >= 0
         IN  [taken |-> TRUE,
              point |-> point,
              consulted |-> nonnegative,
              result |-> IF nonnegative THEN get(n, point) ELSE None,
              state |-> [ts EXCEPT !.points = Tail(ts.points)]]
    ELSE [taken |-> FALSE, point |-> <<0, 0>>, consulted |-> FALSE,
          result |-> None, state |-> ts]

\* A grid with at most one cell that is not the default, and a TileSet over
\* a list of coordinates
InitQuery ==
    /\ \E x \in Cols, y \in Rows, p \in Points : net = set(new(x, y), 1, p)
    /\ pre = net
    /\ op = NoOp
    /\ \E list \in QueryLists : tileset = collide_set(list)
    /\ answers = <<>>

\* One call of next() by the consumer, until the coordinates have run out
Next_TileSet ==
    /\ IF answers = <<>> THEN TRUE ELSE answers[Len(answers)].taken
    /\ LET r == TileSet_next(tileset, net)
       IN  /\ tileset' = r.state
           /\ answers' = Append(answers, [taken |-> r.taken, point |-> r.point,
                                          consulted |-> r.consulted,
                                          result |-> r.result])
    /\ UNCHANGED <<gridVars, lineVars, solveVars, proxyVars, mergeVars, tilesVars,
                   viewVars, occupancyVars, scenarioVars>>

(***************************************************************************)
(* The candidate lines: Points and Collable::tiles of                      *)
(* src/src/collable/mod.rs.  tiles() takes the shape's points and its      *)
(* queued move, and pushes the supercover of one line per point.           *)
(***************************************************************************)
MaxLines == 2                    \* points of a shape, lines of a merge
Corners == << <<0, 0>>, <<Scale, Scale>>, <<0, Scale>>, <<Scale, 0>> >>

\* Line(a, b)
Line(a, b) == [start |-> a, stop |-> b]

\* Vector + Vector
Vector_add(a, b) == <<a[1] + b[1], a[2] + b[2]>>

\* Points::new(offset, points), with the move the shape reports as queued
Points_new(offset, points, queued) ==
    [offset |-> offset, pts |-> points, queued |-> queued, index |-> 0]

\* Points::next: self.points.get(self.index), and the index moves on
Points_next(c) ==
    [some |-> c.index < Len(c.pts),
     item |-> IF c.index < Len(c.pts) THEN c.pts[c.index + 1] ELSE <<0, 0>>,
     state |-> [c EXCEPT !.index = c.index + 1]]

\* The body of the for loop of Collable::tiles: the line of one point and
\* its traversal
tiles_line(point, queued) ==
    LET current == point
        next == Vector_add(current, queued)
        l == Line(current, next)
    IN  [line |-> l, tiles |-> supercover(l)]

\* A shape at an offset, with the first corners of the unit square as its
\* points and a queued move, at the start of tiles()
InitTiles ==
    /\ \E offset \in Positions \X Positions, queued \in Positions \X Positions,
          n \in 0..MaxLines :
          collable = Points_new(offset, SubSeq(Corners, 1, Min2(n, Len(Corners))), queued)
    /\ multi = <<>>

\* One pass of the for loop of Collable::tiles, or its end
Tiles_push ==
    /\ collable.index <= Len(collable.pts)
    /\ LET r == Points_next(collable)
       IN  /\ collable' = r.state
           /\ multi' = IF r.some
                       THEN Append(multi, tiles_line(r.item, collable.queued))
                       ELSE multi
    /\ UNCHANGED <<gridVars, lineVars, solveVars, proxyVars, queryVars, mergeVars,
                   viewVars, occupancyVars, scenarioVars>>

(***************************************************************************)
(* The merged traversal: LinesTiles of src/src/collable/mod.rs, a Vec of   *)
(* LineTiles and an index.  Each element of lines is held with its Line,   *)
(* which decides the roundings of its traversal.                           *)
(***************************************************************************)
\* Line::from_origin
from_origin(p) == Line(<<0, 0>>, p)

\* LinesTiles::next.  The local clean is never changed from true, so the
\* branch that sets the index back to 0 is never taken.  from: the element
\* of lines the item came from
RECURSIVE LinesTiles_next(_, _)
LinesTiles_next(m, below) ==
    IF m.index < Len(m.lines)
    THEN LET k == m.index + 1
             sub == m.lines[k]
             maybe == LineTiles_next(sub.tiles,
                                     below /\ TRUE \in Roundings(sub.line, sub.tiles))
             called == [m EXCEPT !.lines[k].tiles = maybe.state,
                                 !.index = m.index + 1]
         IN  IF maybe.some
             THEN [some |-> TRUE, item |-> maybe.item, from |-> k, state |-> called]
             ELSE LinesTiles_next([called EXCEPT !.index = called.index + 1], below)
    ELSE [some |-> FALSE, item |-> <<0, 0>>, from |-> 0, state |-> m]

\* A LinesTiles over the traversals of up to MaxLines lines from the origin
InitMerge ==
    /\ \E n \in 0..MaxLines :
          \E targets \in [1..n -> (0..MaxPos) \X (0..MaxPos)] :
              merged = [lines |-> [k \in 1..n |->
                                      [line |-> from_origin(targets[k]),
                                       tiles |-> supercover(from_origin(targets[k]))]],
                        index |-> 0]
    /\ merged_out = <<>>

\* One call of next() by the consumer, until the first None
Next_LinesTiles ==
    /\ IF merged_out = <<>> THEN TRUE ELSE merged_out[Len(merged_out)].some
    /\ \E below \in BOOLEAN :
          LET r == LinesTiles_next(merged, below)
          IN  /\ merged' = r.state
              /\ merged_out' = Append(merged_out,
                                      [some |-> r.some, item |-> r.item, from |-> r.from])
    /\ UNCHANGED <<gridVars, lineVars, solveVars, proxyVars, queryVars, tilesVars,
                   viewVars, occupancyVars, scenarioVars>>

(***************************************************************************)
(* The view: TileView of src/src/tiles/mod.rs, made by TileNet::view_all   *)
(* and TileNet::view_box.  rectangle is (left, right, top, bottom), the    *)
(* tuple fields .0 .. .3 being elements 1 .. 4; current is (x, y).         *)
(***************************************************************************)
\* TileView::new(tilenet, rectangle)
TileView_new(n, rectangle) ==
    LET clamped == [rectangle EXCEPT ![2] = Min2(rectangle[2], get_size(n)[2]),
                                     ![4] = Min2(rectangle[4], get_size(n)[1])]
    IN  [rectangle |-> clamped, current |-> <<clamped[1], clamped[3]>>]

\* TileNet::view_all
view_all(n) == TileView_new(n, <<0, n.cols, 0, Len(n.map) \div n.cols>>)

\* TileNet::view_box(rectangle)
view_box(n, rectangle) == TileView_new(n, rectangle)

\* TileView::next on the grid n: [some, tile, x, y, state]
TileView_next(v, n) ==
    IF v.current[2] >= v.rectangle[4]
    THEN [some |-> FALSE, tile |-> Default, x |-> 0, y |-> 0, state |-> v]
    ELSE LET tile == get(n, v.current)
             right == v.current[1] + 1
         IN  [some |-> tile.some,
              tile |-> tile.val,
              x |-> IF tile.some THEN v.current[1] ELSE 0,
              y |-> IF tile.some THEN v.current[2] ELSE 0,
              state |-> [v EXCEPT !.current =
                            IF right >= v.rectangle[2]
                            THEN <<v.rectangle[1], v.current[2] + 1>>
                            ELSE <<right, v.current[2]>>]]

\* A grid with at most one cell that is not the default, and a view of all
\* of it or of a rectangle
InitView ==
    /\ \E x \in Cols, y \in Rows, p \in Points : net = set(new(x, y), 1, p)
    /\ pre = net
    /\ \/ /\ op = Op("view_all", Default, <<0, 0>>, <<0, 0>>)
          /\ view = view_all(net)
       \/ \E left \in Coords, right \in Coords, top \in Coords, bottom \in Coords :
             /\ op = Op("view_box", Default, <<left, right>>, <<top, bottom>>)
             /\ view = view_box(net, <<left, right, top, bottom>>)
    /\ viewed = <<>>

\* One call of next() by the consumer, until the first None
Next_TileView ==
    /\ IF viewed = <<>> THEN TRUE ELSE viewed[Len(viewed)].some
    /\ LET r == TileView_next(view, net)
       IN  /\ view' = r.state
           /\ viewed' = Append(viewed, [some |-> r.some, tile |-> r.tile,
                                        x |-> r.x, y |-> r.y])
    /\ UNCHANGED <<gridVars, lineVars, solveVars, proxyVars, queryVars, mergeVars,
                   tilesVars, occupancyVars, scenarioVars>>

(***************************************************************************)
(* Occupancy: the TileNet<T> of src/src/lib.rs, whose cells are Option<T>: *)
(* None for an empty cell, Some(v) for a cell holding the payload v.       *)
(***************************************************************************)
OptCells == {None, Some(1)}
OptLists == UNION {[1..m -> OptCells] : m \in 0..MaxItems}

\* TileNet::from_iter(columns, iter) of lib.rs: the last row is filled up
\* with None
lib_from_iter(columns, items) ==
    LET remainder == Len(items) % columns
    IN  [map |-> IF remainder # 0
                 THEN items \o [i \in 1..(columns - remainder) |-> None]
                 ELSE items,
         cols |-> columns]

\* TileNet::get(p) of lib.rs: Option<&Option<T>>
lib_get(n, p) ==
    IF p[1] >= n.cols
    THEN None
    ELSE IF p[1] + p[2] * n.cols < Len(n.map)
         THEN Some(n.map[p[1] + p[2] * n.cols + 1])
         ELSE None

\* *get_mut(p).unwrap() = cell, for a p that get_mut finds
lib_put(n, p, cell) == [n EXCEPT !.map[p[1] + p[2] * n.cols + 1] = cell]

\* An is_occupied that takes a position outside the grid for free
is_occupied_absent_is_free(n, p) ==
    LET tile == lib_get(n, p)
    IN  IF tile.some THEN tile.val.some ELSE FALSE

\* TileNet::is_occupied(p) of lib.rs
is_occupied(n, p) ==
    LET tile == lib_get(n, p)
    IN  IF tile.some THEN tile.val.some ELSE TRUE

NoProbe == [asked |-> FALSE, p |-> <<0, 0>>, result |-> FALSE]

\* A grid made by from_iter
InitOccupancy ==
    /\ \E columns \in Cols, items \in OptLists : optnet = lib_from_iter(columns, items)
    /\ probe = NoProbe

\* is_occupied(p) is called
IsOccupied ==
    /\ \E p \in Points :
          probe' = [asked |-> TRUE, p |-> p, result |-> is_occupied(optnet, p)]
    /\ UNCHANGED <<optnet, gridVars, lineVars, solveVars, proxyVars, queryVars,
                   mergeVars, tilesVars, viewVars, scenarioVars>>

\* A cell is emptied or filled through get_mut
PutTile ==
    /\ \E p \in Points, cell \in OptCells :
          /\ lib_get(optnet, p).some
          /\ optnet' = lib_put(optnet, p, cell)
    /\ probe' = NoProbe
    /\ UNCHANGED <<gridVars, lineVars, solveVars, proxyVars, queryVars,
                   mergeVars, tilesVars, viewVars, scenarioVars>>

(***************************************************************************)
(* The corner scenario of the specification (section 8): a shape with the  *)
(* four corners of the unit square as vertices, at position (1.1, 1.1),    *)
(* with the pending displacement (100, 100), on a square grid whose border *)
(* cells are a wall of non-zero cells, resolved by one call of the driver. *)
(* Its resolve accepts when every candidate tile is zero and otherwise     *)
(* scales the displacement by 0.9.  The shape is not among the source      *)
(* files and is modelled from the specification, as the driver is.         *)
(*                                                                         *)
(* Positions are held in millionths of a cell (Unit), and the scaled       *)
(* displacement is cut to a whole number of them; the sides of the grid    *)
(* are kept so small that the displacements met stay at least 0.04 cells   *)
(* away from every cell boundary that decides an attempt.                  *)
(*                                                                         *)
(* The candidate tiles of an attempt are the cells of the four lines from  *)
(* a vertex to the vertex moved by the displacement.  The free interior is *)
(* a rectangle, so the cells of such a line are all zero exactly when the  *)
(* cells of its two ends are interior cells.                               *)
(***************************************************************************)
Unit == 1000000
MinArena == 4                    \* the smallest walled grid that holds the shape
MaxArena == 12                   \* the largest side of the walled grid
ScenarioCorners == {<<0, 0>>, <<Unit, 0>>, <<0, Unit>>, <<Unit, Unit>>}
ScenarioShape ==
    [pos |-> <<(11 * Unit) \div 10, (11 * Unit) \div 10>>,
     mov |-> <<100 * Unit, 100 * Unit>>]

\* The cell of a position
CellOf(q) == <<q[1] \div Unit, q[2] \div Unit>>

\* The cell is inside the wall of a grid of the given side
Interior(side, cell) ==
    /\ 1 <= cell[1] /\ cell[1] <= side - 2
    /\ 1 <= cell[2] /\ cell[2] <= side - 2

\* Every candidate tile of the shape b is zero
Scenario_free(b, side) ==
    \A v \in ScenarioCorners :
        /\ Interior(side, CellOf(Vector_add(b.pos, v)))
        /\ Interior(side, CellOf(Vector_add(Vector_add(b.pos, v), b.mov)))

\* A shape that gives up a twentieth of its displacement on a rejection
Scenario_shrink_by_a_twentieth(m) == <<(m[1] * 19) \div 20, (m[2] * 19) \div 20>>

\* The displacement scaled by 0.9
Scenario_shrink(m) == <<(m[1] * 9) \div 10, (m[2] * 9) \div 10>>

\* resolve of the shape: accept and move, or reject and shrink
Scenario_resolve(b, side) ==
    IF Scenario_free(b, side)
    THEN [result |-> TRUE,
          state |-> [pos |-> Vector_add(b.pos, b.mov), mov |-> <<0, 0>>]]
    ELSE [result |-> FALSE,
          state |-> [b EXCEPT !.mov = Scenario_shrink(b.mov)]]

\* The shape in a walled grid, before the driver is called
InitScenario ==
    /\ arena \in MinArena..MaxArena
    /\ body = ScenarioShape

\* solve is entered: the locals are initialised and presolve is called
Scenario_presolve ==
    /\ pc = "idle"
    /\ solves = 0
    /\ calls' = <<Callback("presolve", FALSE, FALSE)>>
    /\ attempt' = 0
    /\ collided_once' = FALSE
    /\ resolved' = FALSE
    /\ solves' = solves + 1
    /\ pc' = "loop"
    /\ UNCHANGED <<shape, scenarioVars, lineVars, gridVars, proxyVars, queryVars,
                   mergeVars, tilesVars, viewVars, occupancyVars>>

\* One iteration of the retry loop on the shape of the scenario
Scenario_attempt ==
    /\ pc = "loop"
    /\ LET r == Scenario_resolve(body, arena)
       IN  /\ body' = r.state
           /\ calls' = Append(calls, Callback("resolve", r.result, FALSE))
           /\ resolved' = (resolved \/ r.result)
           /\ collided_once' = (collided_once \/ ~r.result)
           /\ pc' = IF loop_continues(attempt + 1, r.result) THEN "loop" ELSE "post"
    /\ attempt' = attempt + 1
    /\ UNCHANGED <<shape, solves, arena, lineVars, gridVars, proxyVars, queryVars,
                   mergeVars, tilesVars, viewVars, occupancyVars>>

\* The loop is over: postsolve is called and solve returns
Scenario_postsolve ==
    /\ pc = "post"
    /\ LET flags == postsolve_flags(collided_once, resolved)
       IN  calls' = Append(calls, Callback("postsolve", flags[1], flags[2]))
    /\ pc' = "idle"
    /\ UNCHANGED <<attempt, collided_once, resolved, shape, solves, scenarioVars,
                   lineVars, gridVars, proxyVars, queryVars, mergeVars, tilesVars,
                   viewVars, occupancyVars>>

(***************************************************************************)
(* The state of each later part while another part runs                    *)
(***************************************************************************)
IdleProxy == proxy = NoProxy /\ written = {} /\ writes = 0
IdleQuery == tileset = [points |-> <<>>] /\ answers = <<>>
IdleMerge == merged = [lines |-> <<>>, index |-> 0] /\ merged_out = <<>>
IdleTiles ==
    /\ collable = [offset |-> <<0, 0>>, pts |-> <<>>, queued |-> <<0, 0>>, index |-> 0]
    /\ multi = <<>>
IdleView ==
    /\ view = [rectangle |-> <<0, 0, 0, 0>>, current |-> <<0, 0>>]
    /\ viewed = <<>>
IdleOccupancy ==
    /\ optnet = [map |-> <<>>, cols |-> 1]
    /\ probe = NoProbe
IdleScenario == arena = 0 /\ body = ScenarioShape
IdleLater ==
    /\ IdleProxy /\ IdleQuery /\ IdleMerge /\ IdleTiles
    /\ IdleView /\ IdleOccupancy /\ IdleScenario

NextLine == Next_LineTiles
LineInit == InitLine /\ IdleSolve /\ IdleGrid /\ IdleLater
SpecLine == LineInit /\ [][NextLine]_vars

NextSolve ==
    \/ Solve_presolve
    \/ Solve_resolve
    \/ Solve_postsolve
SolveInit == IdleLine /\ IdleSolve /\ IdleGrid /\ IdleLater
SpecSolve == SolveInit /\ [][NextSolve]_vars

NextProxy ==
    \/ ProxySetBox
    \/ ProxySetRow
    \/ ProxySetCol
    \/ ProxySet
ProxyInit ==
    /\ IdleLine /\ IdleSolve /\ InitProxy
    /\ IdleQuery /\ IdleMerge /\ IdleTiles /\ IdleView /\ IdleOccupancy /\ IdleScenario
SpecProxy == ProxyInit /\ [][NextProxy]_vars

NextQuery == Next_TileSet
QueryInit ==
    /\ IdleLine /\ IdleSolve /\ InitQuery
    /\ IdleProxy /\ IdleMerge /\ IdleTiles /\ IdleView /\ IdleOccupancy /\ IdleScenario
SpecQuery == QueryInit /\ [][NextQuery]_vars

NextTiles == Tiles_push
TilesInit ==
    /\ IdleLine /\ IdleSolve /\ IdleGrid /\ InitTiles
    /\ IdleProxy /\ IdleQuery /\ IdleMerge /\ IdleView /\ IdleOccupancy /\ IdleScenario
SpecTiles == TilesInit /\ [][NextTiles]_vars

NextMerge == Next_LinesTiles
MergeInit ==
    /\ IdleLine /\ IdleSolve /\ IdleGrid /\ InitMerge
    /\ IdleProxy /\ IdleQuery /\ IdleTiles /\ IdleView /\ IdleOccupancy /\ IdleScenario
SpecMerge == MergeInit /\ [][NextMerge]_vars

NextView == Next_TileView
ViewInit ==
    /\ IdleLine /\ IdleSolve /\ InitView
    /\ IdleProxy /\ IdleQuery /\ IdleMerge /\ IdleTiles /\ IdleOccupancy /\ IdleScenario
SpecView == ViewInit /\ [][NextView]_vars

NextOccupancy ==
    \/ IsOccupied
    \/ PutTile
OccupancyInit ==
    /\ IdleLine /\ IdleSolve /\ IdleGrid /\ InitOccupancy
    /\ IdleProxy /\ IdleQuery /\ IdleMerge /\ IdleTiles /\ IdleView /\ IdleScenario
SpecOccupancy == OccupancyInit /\ [][NextOccupancy]_vars

NextScenario ==
    \/ Scenario_presolve
    \/ Scenario_attempt
    \/ Scenario_postsolve
ScenarioInit ==
    /\ IdleLine /\ IdleSolve /\ IdleGrid /\ InitScenario
    /\ IdleProxy /\ IdleQuery /\ IdleMerge /\ IdleTiles /\ IdleView /\ IdleOccupancy
SpecScenario == ScenarioInit /\ [][NextScenario]_vars

NextGrid ==
    \/ New
    \/ FromIter
    \/ Set
    \/ SetRow
    \/ SetCol
    \/ SetBox
    \/ SetBoxIsize
    \/ Resize
    \/ Proceed
GridInit == IdleLine /\ IdleSolve /\ InitGrid /\ IdleLater
SpecGrid == GridInit /\ [][NextGrid]_vars

(***************************************************************************)
(* Line traversal: claims C1, C2, C18, C20 (under SpecLine)                *)
(***************************************************************************)
DestinationCell == <<Floor(line.stop[1]), Floor(line.stop[2])>>
StartCell == <<Floor(line.start[1]), Floor(line.start[2])>>
ProducedCells == {produced[i] : i \in 1..Len(produced)}
Between(a, b) == Min2(a, b)..Max2(a, b)
AxisAligned == line.stop[1] = line.start[1] \/ line.stop[2] = line.start[2]

\* C1: for every line, the last cell next() returns before it returns None
\* is (floor(stop.x), floor(stop.y)).
C1_LastCellIsDestination ==
    exhausted =>
        /\ Len(produced) >= 1
        /\ produced[Len(produced)] = DestinationCell

\* C1 witness: a drained traversal of a sloped line of several cells whose
\* walk ended on another cell than the destination
C1_Witness ==
    /\ exhausted
    /\ Len(produced) >= 3
    /\ line.stop[1] # line.start[1]
    /\ line.stop[2] # line.start[2]
    /\ <<tiles.ix, tiles.iy>> # DestinationCell

\* C2: for every axis-aligned line, the cells the traversal produces are
\* exactly the cells on the axis from the floored start cell to the floored
\* stop cell, both included.
C2_AxisAlignedCoversAxis ==
    (exhausted /\ AxisAligned) =>
        ProducedCells = Between(StartCell[1], DestinationCell[1])
                            \X Between(StartCell[2], DestinationCell[2])

\* C18: for every line whose start equals its stop, the traversal yields
\* exactly one cell, the floored start cell, and then reports exhaustion.
C18_ZeroLengthYieldsStartCell ==
    (exhausted /\ line.start = line.stop) => produced = <<StartCell>>

\* C18 witness: a drained traversal of a zero-length line at a fractional
\* position left of and below the origin
C18_Witness ==
    /\ exhausted
    /\ line.start = line.stop
    /\ Fract(line.start[1]) # 0
    /\ line.start[1] < 0
    /\ line.start[2] < 0
    /\ Len(produced) = 1

\* C20: for every line, the traversal produces as many cells as the Manhattan
\* distance between the floored start cell and the floored stop cell, plus
\* the final destination cell.
C20_StepsAreManhattanDistance ==
    exhausted =>
        Len(produced) = Abs(DestinationCell[1] - StartCell[1])
                            + Abs(DestinationCell[2] - StartCell[2]) + 1

(***************************************************************************)
(* Resolution driver: claims C3, C4, C5 (under SpecSolve)                  *)
(***************************************************************************)
CallsOf(name) == {i \in 1..Len(calls) : calls[i].cb = name}
Rejections == {i \in CallsOf("resolve") : ~calls[i].a}
Acceptances == {i \in CallsOf("resolve") : calls[i].a}
Returned == pc = "idle" /\ calls # <<>>

\* C3: in one driver call resolve is called at most MaxIterations times,
\* whatever it returns, and after the MaxIterations-th call the loop is over.
C3_AttemptsBounded ==
    /\ Cardinality(CallsOf("resolve")) <= MaxIterations
    /\ Cardinality(CallsOf("resolve")) = MaxIterations => pc # "loop"

\* C3 witness: a driver call that returned after MaxIterations rejections
C3_Witness ==
    /\ Returned
    /\ Cardinality(Rejections) = MaxIterations

\* C4: once a resolve call has returned "resolved", resolve is not called
\* again in this driver call: the loop is over and the next callback, the
\* last of the call, is postsolve.
C4_StopsOnResolved ==
    \A i \in Acceptances :
        \/ i = Len(calls) /\ pc = "post"
        \/ i + 1 = Len(calls) /\ calls[i + 1].cb = "postsolve"

\* C4 witness: "resolved" came after some rejections and before the ceiling,
\* and postsolve followed it
C4_Witness ==
    \E i \in Acceptances :
        /\ i > 2
        /\ i < MaxIterations
        /\ i + 1 = Len(calls)
        /\ calls[i + 1].cb = "postsolve"

\* C5: a driver call ends with exactly one postsolve, whose first flag says
\* whether some resolve of this call returned "try again" and whose second
\* flag says whether a resolve of this call returned "resolved"; postsolve
\* is not called before the loop is over.
C5_PostsolveFlags ==
    /\ Returned =>
          /\ CallsOf("postsolve") = {Len(calls)}
          /\ calls[Len(calls)].a = (Rejections # {})
          /\ calls[Len(calls)].b = (Acceptances # {})
    /\ ~Returned => CallsOf("postsolve") = {}

\* C5 witness: every attempt up to the ceiling was rejected and postsolve
\* was called with (true, false)
C5_Witness ==
    /\ Returned
    /\ Cardinality(Rejections) = MaxIterations
    /\ calls[Len(calls)] = Callback("postsolve", TRUE, FALSE)

(***************************************************************************)
(* Grid: claims C6 .. C10 (under SpecGrid)                                 *)
(***************************************************************************)
InRange(n, p) == p[1] < col_count(n) /\ p[2] < row_count(n)
Cells(n) == (0..(col_count(n) - 1)) \X (0..(row_count(n) - 1))
InBox(p, start, stop) ==
    /\ start[1] <= p[1] /\ p[1] <= stop[1]
    /\ start[2] <= p[2] /\ p[2] <= stop[2]

\* C6: a set at an in-range cell followed by a get of that cell returns the
\* value written; get one past the last column, and one past the last row,
\* returns None.
C6_SetGetRoundTrip ==
    /\ (op.name = "set" /\ InRange(pre, op.a)) => get(net, op.a) = Some(op.v)
    /\ \A y \in Coords : get(net, <<col_count(net), y>>) = None
    /\ \A x \in 0..(col_count(net) - 1) : get(net, <<x, row_count(net)>>) = None

\* C6 witness: a set changed an in-range cell of a grid of several rows
C6_Witness ==
    /\ op.name = "set"
    /\ InRange(pre, op.a)
    /\ get(pre, op.a) # Some(op.v)
    /\ row_count(net) >= 2

\* C7: a set outside the grid, a set_row at a row outside it and a set_col
\* at a column outside it leave every cell and the dimensions as they were.
C7_OutOfRangeWriteIsNoOp ==
    /\ (op.name = "set" /\ ~InRange(pre, op.a)) => net = pre
    /\ (op.name = "set_row" /\ op.a[2] >= row_count(pre)) => net = pre
    /\ (op.name = "set_col" /\ op.a[1] >= col_count(pre)) => net = pre

\* C7 witness: a set one past the last column, at a row whose Vec index
\* x + y * cols falls on a cell holding another payload
C7_Witness ==
    /\ op.name = "set"
    /\ op.a[1] = col_count(pre)
    /\ op.a[2] + 1 < row_count(pre)
    /\ get(pre, <<0, op.a[2] + 1>>) # Some(op.v)

\* C8: after resize, a cell within the old and the new extent holds the
\* payload it held before, and every other cell of the grid holds the
\* default payload.
C8_ResizeKeepsByPosition ==
    op.name = "resize" =>
        \A p \in Cells(net) :
            get(net, p) = IF InRange(pre, p) THEN get(pre, p) ELSE Some(Default)

\* C8 witness: a resize to fewer columns and more rows that kept a cell with
\* a payload other than the default and dropped another such cell
C8_Witness ==
    /\ op.name = "resize"
    /\ col_count(net) < col_count(pre)
    /\ row_count(net) > row_count(pre)
    /\ get(pre, <<0, 0>>) = Some(1)
    /\ get(pre, <<col_count(net), 0>>) = Some(1)

\* C9: the length of the backing array is row_count() * col_count(), and the
\* in-range positions map to distinct elements x + y * cols of it.
C9_ArrayIsRowsTimesCols ==
    /\ Len(net.map) = row_count(net) * col_count(net)
    /\ \A p \in Cells(net) : p[1] + p[2] * net.cols < Len(net.map)
    /\ \A p \in Cells(net), q \in Cells(net) :
          p[1] + p[2] * net.cols = q[1] + q[2] * net.cols => p = q

\* C9 witness: a from_iter whose items did not fill the last row
C9_Witness ==
    /\ op.name = "from_iter"
    /\ op.a[2] % op.a[1] # 0
    /\ row_count(net) >= 2

\* C10: after set_box(value, start, stop) with start <= stop, every in-range
\* cell of the rectangle, corners included, holds value, every other cell
\* holds what it held, and the dimensions are unchanged.
C10_SetBoxInclusive ==
    (op.name = "set_box" /\ op.a[1] <= op.b[1] /\ op.a[2] <= op.b[2]) =>
        /\ get_size(net) = get_size(pre)
        /\ \A p \in Cells(pre) :
              get(net, p) = IF InBox(p, op.a, op.b) THEN Some(op.v) ELSE get(pre, p)

\* C10 witness: a box of two rows inside the grid changed its stop corner and
\* left a cell outside it with another payload
C10_Witness ==
    /\ op.name = "set_box"
    /\ op.a[1] <= op.b[1]
    /\ op.a[2] < op.b[2]
    /\ InRange(pre, op.b)
    /\ get(pre, op.b) # Some(op.v)
    /\ \E p \in Cells(pre) : ~InBox(p, op.a, op.b) /\ get(net, p) # Some(op.v)

(***************************************************************************)
(* Proxy: claim C11 (under SpecProxy)                                      *)
(***************************************************************************)
Xs(cells) == {c[1] : c \in cells}
Ys(cells) == {c[2] : c \in cells}
Least(S) == CHOOSE m \in S : \A k \in S : m <= k
Greatest(S) == CHOOSE m \in S : \A k \in S : m >= k

\* C11: after one or more writes through a proxy, get_span() is the minimal
\* rectangle (min_x, min_y, max_x, max_y) around the cells the writes have
\* set.
C11_SpanIsMinimalRectangle ==
    (writes >= 1 /\ written # {}) =>
        get_span(proxy) = <<Least(Xs(written)), Least(Ys(written)),
                            Greatest(Xs(written)), Greatest(Ys(written))>>

(***************************************************************************)
(* Tile query: claim C12 (under SpecQuery)                                 *)
(***************************************************************************)
Negative(point) == point[1] < 0 \/ point[2] < 0

\* C12: each call of next() takes the next coordinate of the sequence given
\* to collide_set, so the k-th result belongs to the k-th coordinate; the
\* result is absent, without a call of get, when a component is negative,
\* and it is what get returns for the coordinate otherwise.
C12_QueryFollowsCoordinates ==
    [][(answers' # answers /\ tileset.points # <<>>) =>
          LET a == answers'[Len(answers')]
              point == Head(tileset.points)
          IN  /\ answers' = Append(answers, a)
              /\ tileset'.points = Tail(tileset.points)
              /\ a.taken
              /\ a.point = point
              /\ a.consulted = ~Negative(point)
              /\ a.result = IF Negative(point) THEN None ELSE get(net, point)]_vars

\* C12 witness: a query that answered a negative coordinate with absent and
\* then found a payload other than the default
C12_Witness ==
    /\ Len(answers) >= 2
    /\ answers[1].point[1] >= 0
    /\ answers[1].point[2] < 0
    /\ answers[2].result = Some(1)

(***************************************************************************)
(* Merged traversal and candidate lines: claims C13 (under SpecMerge) and  *)
(* C14 (under SpecTiles)                                                   *)
(***************************************************************************)
MergeEnded == merged_out # <<>> /\ ~merged_out[Len(merged_out)].some
ItemsFrom(k) == {i \in 1..Len(merged_out) : merged_out[i].from = k}

\* C13: the merged iterator reports exhaustion only when every sub-iterator
\* is exhausted, and by then it has yielded every tile of every
\* sub-iterator: the len interior cells and the destination.
C13_MergeDrainsEveryLine ==
    MergeEnded =>
        \A k \in 1..Len(merged.lines) :
            /\ merged.lines[k].tiles.it > merged.lines[k].tiles.len
            /\ Cardinality(ItemsFrom(k)) = merged.lines[k].tiles.len + 1

\* C14: the line of each vertex starts at the vertex offset by the shape's
\* position and ends at that position plus the queued move; there is one
\* line per vertex.
C14_LinesStartAtWorldPosition ==
    /\ Len(multi) <= Len(collable.pts)
    /\ collable.index > Len(collable.pts) => Len(multi) = Len(collable.pts)
    /\ \A k \in 1..Len(multi) :
          LET world == Vector_add(collable.pts[k], collable.offset)
          IN  /\ multi[k].line.start = world
              /\ multi[k].line.stop = Vector_add(world, collable.queued)

(***************************************************************************)
(* View: claims C15, C16 (under SpecView)                                  *)
(***************************************************************************)
ViewEnded == viewed # <<>> /\ ~viewed[Len(viewed)].some
Triples == [k \in 1..(Len(viewed) - 1) |-> <<viewed[k].tile, viewed[k].x, viewed[k].y>>]

\* The cells with left <= x < right and top <= y < bottom in row-major
\* order, each with the payload get returns for it
RowMajor(left, right, top, bottom) ==
    LET w == Max2(right - left, 0)
        h == Max2(bottom - top, 0)
    IN  [k \in 1..(w * h) |->
            LET x == left + ((k - 1) % w)
                y == top + ((k - 1) \div w)
            IN  <<get(net, <<x, y>>).val, x, y>>]

\* C15: for a grid with at least one column and one row, view_all() yields
\* the cols * rows cells of the grid, each once, in row-major order, each
\* with the payload get returns for it.
C15_ViewAllCoversGrid ==
    (op.name = "view_all" /\ ViewEnded /\ row_count(net) >= 1) =>
        Triples = RowMajor(0, col_count(net), 0, row_count(net))

\* C16: view_box(left, right, top, bottom) yields the cells with
\* left <= x < min(right, cols) and top <= y < min(bottom, rows), each once,
\* in row-major order, and nothing when there is no such cell.
C16_ViewBoxCoversClampedRectangle ==
    (op.name = "view_box" /\ ViewEnded) =>
        Triples = RowMajor(op.a[1], Min2(op.a[2], col_count(net)),
                           op.b[1], Min2(op.b[2], row_count(net)))

(***************************************************************************)
(* Occupancy: claim C17 (under SpecOccupancy)                              *)
(***************************************************************************)
InOptNet(p) == p[1] < optnet.cols /\ p[2] < Len(optnet.map) \div optnet.cols

\* C17: is_occupied(p) is true when p is outside the grid, true when p is in
\* range and its cell holds a payload, and false only when p is in range and
\* its cell is empty.
C17_AbsentIsOccupied ==
    probe.asked =>
        probe.result = (~InOptNet(probe.p)
                           \/ optnet.map[probe.p[1] + probe.p[2] * optnet.cols + 1] # None)

\* C17 witness: a position one past the last column, whose index
\* x + y * cols falls on an empty cell of the next row, is occupied
C17_Witness ==
    /\ probe.asked
    /\ probe.p[1] = optnet.cols
    /\ probe.p[1] + probe.p[2] * optnet.cols < Len(optnet.map)
    /\ optnet.map[probe.p[1] + probe.p[2] * optnet.cols + 1] = None
    /\ probe.result

(***************************************************************************)
(* Corner scenario: claim C19 (under SpecScenario)                         *)
(***************************************************************************)
ScenarioOutcome ==
    /\ calls[Len(calls)] = Callback("postsolve", TRUE, TRUE)
    /\ Cardinality(CallsOf("resolve")) <= MaxIterations
    /\ body.pos # ScenarioShape.pos
    /\ \A v \in ScenarioCorners : Interior(arena, CellOf(Vector_add(body.pos, v)))

InteriorStep == tiles.it < tiles.len /\ tiles'.it = tiles.it + 1
AdvancedX == tiles'.ix = tiles.ix + tiles.sx /\ tiles'.iy = tiles.iy
AdvancedY == tiles'.iy = tiles.iy + tiles.sy /\ tiles'.ix = tiles.ix
\* ex and ey are equal as f32 values, not only as reals
EqualAccumulators == FTie(tiles.ex, tiles.ey) /\ Roundings(line, tiles) = {FALSE}
\* a diagonal from the origin to (n, n), n >= 1
DiagonalFromOrigin ==
    /\ line.start = <<0, 0>>
    /\ line.stop[1] = line.stop[2]
    /\ Floor(line.stop[1]) >= 1 /\ Fract(line.stop[1]) = 0

\* C21 as stated: an interior step advances the axis with the smaller
\* accumulator, and advances along x when the accumulators are equal; on a
\* diagonal from the origin to (n, n) the cell after (0, 0) is (1, 0).
C21_TieAdvancesX ==
    [][/\ InteriorStep =>
            /\ FLt(tiles.ex, tiles.ey) => AdvancedX
            /\ FLt(tiles.ey, tiles.ex) => AdvancedY
            /\ EqualAccumulators => AdvancedX
       /\ (DiagonalFromOrigin /\ Len(produced') >= 2) => produced'[2] = <<1, 0>>]_vars

\* C21 amended: an interior step advances the axis with the smaller
\* accumulator, and advances along y when the accumulators are equal; on a
\* diagonal from the origin to (n, n) the cell after (0, 0) is (0, 1).
C21_TieAdvancesY ==
    [][/\ InteriorStep =>
            /\ FLt(tiles.ex, tiles.ey) => AdvancedX
            /\ FLt(tiles.ey, tiles.ex) => AdvancedY
            /\ EqualAccumulators => AdvancedY
       /\ (DiagonalFromOrigin /\ Len(produced') >= 2) => produced'[2] = <<0, 1>>]_vars

\* C21 witness: the traversal of a diagonal from the origin to (n, n) has
\* produced (0, 0) and then (0, 1)
C21_Witness ==
    /\ DiagonalFromOrigin
    /\ Len(produced) >= 2
    /\ produced[1] = <<0, 0>> /\ produced[2] = <<0, 1>>

(***************************************************************************)
(* Argument order of resize: claim C22 (under SpecGrid)                    *)
(***************************************************************************)
\* C22: after resize with (new_cols, new_rows), both at least 1, get_size()
\* returns (new_cols, new_rows), the order new(cols, rows) takes them in.
C22_ResizeTakesColsThenRows ==
    (op.name = "resize" /\ op.a[1] >= 1 /\ op.a[2] >= 1) => get_size(net) = op.a

(***************************************************************************)
(* Adjacency of the cells of a traversal: claim C23 (under SpecLine)       *)
(***************************************************************************)
\* C23: every two consecutive cells a traversal produces, the last walked
\* cell and the destination included, differ by exactly 1 in exactly one
\* coordinate.
C23_ConsecutiveCellsAdjacent ==
    \A k \in 1..(Len(produced) - 1) :
        Abs(produced[k + 1][1] - produced[k][1])
            + Abs(produced[k + 1][2] - produced[k][2]) = 1

(***************************************************************************)
(* A consumer of the tile query that stops at the first None, as           *)
(* Iterator::all and a for loop do: claim C24 (under SpecQuery)            *)
(***************************************************************************)
\* The k-th call of next() is one the consumer makes: no earlier call has
\* returned None
ConsumerReaches(k) == \A j \in 1..(k - 1) : answers[j].result.some

\* C24: the consumer sees the payload of every coordinate of the sequence
\* that lies in the grid, whatever coordinates come before it.
C24_ConsumerSeesEveryInRangeTile ==
    \A k \in 1..Len(answers) :
        (answers[k].taken /\ ~Negative(answers[k].point)
                          /\ InRange(net, answers[k].point))
            => ConsumerReaches(k)

(***************************************************************************)
(* Growth of the span of a proxy: claim C25 (under SpecProxy)              *)
(***************************************************************************)
\* C25: from one write through a proxy to the next, min_x and min_y of
\* get_span() never increase, and max_x and max_y never decrease.
C25_SpanOnlyGrows ==
    [][(writes >= 1 /\ writes' = writes + 1) =>
          /\ get_span(proxy')[1] <= get_span(proxy)[1]
          /\ get_span(proxy')[2] <= get_span(proxy)[2]
          /\ get_span(proxy')[3] >= get_span(proxy)[3]
          /\ get_span(proxy')[4] >= get_span(proxy)[4]]_vars

(***************************************************************************)
(* Empty boxes: claim C26 (under SpecGrid)                                 *)
(***************************************************************************)
\* C26: set_box with start.x > stop.x or start.y > stop.y changes no cell of
\* the grid, and set_box_isize with both corners at negative coordinates
\* changes no cell.
C26_EmptyBoxWritesNothing ==
    /\ (op.name = "set_box" /\ (op.a[1] > op.b[1] \/ op.a[2] > op.b[2]))
           => net = pre
    /\ (op.name = "set_box_isize" /\ op.a[1] < 0 /\ op.a[2] < 0
                                  /\ op.b[1] < 0 /\ op.b[2] < 0)
           => net = pre

====
